---- MODULE Spec2Model ----
(***************************************************************************)
(* Model of the back-of-the-envelope estimator: the expression pipeline of *)
(* estimator.py (_preprocess_scale, _parse_units, _safe_eval, the display  *)
(* paths of evaluate, _format_number, _format_magnitude) and the session   *)
(* state of streamlit_app.py.                                              *)
(*                                                                         *)
(* Text is modelled as strings, read character by character.  Numbers are  *)
(* exact decimal rationals n/d * 10^e; Python's binary floats agree with   *)
(* them on every input drawn here up to the 0.01 tolerance the formatter   *)
(* itself applies.                                                         *)
(***************************************************************************)
EXTENDS Integers, Sequences, FiniteSets, TLC

VARIABLES
    expression, target_unit, rate,      \* arguments of evaluate
    pc,                                 \* position inside evaluate
    processed,                          \* result of _preprocess_scale
    math_str, data_unit, time_unit,     \* result of _parse_units
    evaluated,                          \* strings handed to eval()
    magnitude,                          \* result of _safe_eval
    result,                             \* returned dict, or NoResult
    error,                              \* raised exception, or NoError
    estimates, last_error, reset_flag,  \* st.session_state
    form_label, form_expr, form_unit, form_rate

evalVars == <<expression, target_unit, rate, pc, processed, math_str,
              data_unit, time_unit, evaluated, magnitude, result, error>>
appVars == <<estimates, last_error, reset_flag,
             form_label, form_expr, form_unit, form_rate>>
vars == <<evalVars, appVars>>

None == "None"

----------------------------------------------------------------------------
(* Characters and strings *)

Ch(s, i) == IF i >= 1 /\ i <= Len(s) THEN SubSeq(s, i, i) ELSE ""

UpperChars == "ABCDEFGHIJKLMNOPQRSTUVWXYZ"
LowerChars == "abcdefghijklmnopqrstuvwxyz"
DigitChars == "0123456789"

CharsOf(s) == {Ch(s, i) : i \in 1..Len(s)}
UpperSet == CharsOf(UpperChars)
LowerSet == CharsOf(LowerChars)
DigitSet == CharsOf(DigitChars)
SpaceSet == {" ", "\t", "\n", "\r", "\f"}

IsDigit(c) == c \in DigitSet
IsAlpha(c) == c \in UpperSet \/ c \in LowerSet
IsSpace(c) == c \in SpaceSet

\* a function given by a rule, tabulated
Table(f) == f @@ <<>>

LowerFn == Table([c \in UpperSet |->
               Ch(LowerChars, CHOOSE i \in 1..Len(UpperChars) : Ch(UpperChars, i) = c)])
DigitFn == Table([c \in DigitSet |-> CHOOSE i \in 0..9 : Ch(DigitChars, i + 1) = c])

LowerCh(c) == IF c \in UpperSet THEN LowerFn[c] ELSE c

\* str.lower()
RECURSIVE Lower(_)
Lower(s) == IF s = "" THEN "" ELSE LowerCh(Ch(s, 1)) \o Lower(SubSeq(s, 2, Len(s)))

\* s[i:j] with 1-based inclusive bounds, empty when out of order
Slice(s, i, j) == IF i > j \/ i > Len(s) THEN ""
                  ELSE SubSeq(s, IF i < 1 THEN 1 ELSE i, IF j > Len(s) THEN Len(s) ELSE j)

StartsWith(s, p) == Len(p) <= Len(s) /\ Slice(s, 1, Len(p)) = p

\* index of the last character of the maximal run of characters of class cls
\* starting at i; i - 1 when the run is empty
RECURSIVE RunEnd(_, _, _)
RunEnd(s, i, cls) == IF i <= Len(s) /\ Ch(s, i) \in cls THEN RunEnd(s, i + 1, cls) ELSE i - 1

\* str.lstrip(chars) / str.rstrip(chars) / str.strip()
LStrip(s, cls) == Slice(s, RunEnd(s, 1, cls) + 1, Len(s))
RECURSIVE RStrip(_, _)
RStrip(s, cls) == IF s # "" /\ Ch(s, Len(s)) \in cls THEN RStrip(Slice(s, 1, Len(s) - 1), cls) ELSE s
Strip(s) == RStrip(LStrip(s, SpaceSet), SpaceSet)

\* str.split(): the whitespace-delimited tokens
RECURSIVE SplitFrom(_, _)
SplitFrom(s, i) ==
    IF i > Len(s) THEN <<>>
    ELSE IF IsSpace(Ch(s, i)) THEN SplitFrom(s, i + 1)
    ELSE LET j == RunEnd(s, i, CharsOf(s) \ SpaceSet)
         IN <<Slice(s, i, j)>> \o SplitFrom(s, j + 1)
Split(s) == SplitFrom(s, 1)

\* ' '.join(tokens)
RECURSIVE Join(_)
Join(tokens) == IF tokens = <<>> THEN ""
                ELSE IF Len(tokens) = 1 THEN tokens[1]
                ELSE tokens[1] \o " " \o Join(Tail(tokens))

----------------------------------------------------------------------------
(* Preprocessing: estimator.py lines 21-75 *)

\* the pattern (\d+(?:\.\d+)?) tried at i: index of its last character, 0 if no match
NumEnd(s, i) ==
    LET a == RunEnd(s, i, DigitSet)
    IN IF a < i THEN 0
       ELSE IF Ch(s, a + 1) = "." /\ RunEnd(s, a + 2, DigitSet) >= a + 2
            THEN RunEnd(s, a + 2, DigitSet)
            ELSE a

\* (\d+(?:\.\d+)?)\s+<word> with re.IGNORECASE, tried at i
WordMatch(s, i, word) ==
    LET ne == NumEnd(s, i)
        se == RunEnd(s, ne + 1, SpaceSet)
    IN IF ne = 0 \/ se < ne + 1 THEN [num |-> 0, end |-> 0]
       ELSE IF Lower(Slice(s, se + 1, se + Len(word))) = word
            THEN [num |-> ne, end |-> se + Len(word)]
            ELSE [num |-> 0, end |-> 0]

\* the suffix pattern without its negative lookahead
SuffixMatch_noLookahead(s, i, letter) ==
    LET ne == NumEnd(s, i)
        se == RunEnd(s, ne + 1, SpaceSet)
    IN IF ne = 0 THEN [num |-> 0, end |-> 0]
       ELSE IF Ch(s, se + 1) = letter
            THEN [num |-> ne, end |-> se + 1]
            ELSE [num |-> 0, end |-> 0]

\* (\d+(?:\.\d+)?)\s*<letter>(?![a-zA-Z]), case-sensitive, tried at i
SuffixMatch(s, i, letter) ==
    LET ne == NumEnd(s, i)
        se == RunEnd(s, ne + 1, SpaceSet)
    IN IF ne = 0 THEN [num |-> 0, end |-> 0]
       ELSE IF Ch(s, se + 1) = letter /\ ~IsAlpha(Ch(s, se + 2))
            THEN [num |-> ne, end |-> se + 1]
            ELSE [num |-> 0, end |-> 0]

\* pattern.sub(repl, s) for one word multiplier: repl is r'\1' followed by tail
RECURSIVE SubWord(_, _, _, _)
SubWord(s, i, word, tail) ==
    IF i > Len(s) THEN ""
    ELSE LET m == WordMatch(s, i, word)
         IN IF m.end > 0
            THEN Slice(s, i, m.num) \o tail \o SubWord(s, m.end + 1, word, tail)
            ELSE Ch(s, i) \o SubWord(s, i + 1, word, tail)

RECURSIVE SubSuffix(_, _, _, _)
SubSuffix(s, i, letter, tail) ==
    IF i > Len(s) THEN ""
    ELSE LET m == SuffixMatch(s, i, letter)
         IN IF m.end > 0
            THEN Slice(s, i, m.num) \o tail \o SubSuffix(s, m.end + 1, letter, tail)
            ELSE Ch(s, i) \o SubSuffix(s, i + 1, letter, tail)

_WORD_MULTIPLIERS ==
    << <<"trillion", " * 1e12">>, <<"billion", " * 1e9">>,
       <<"million", " * 1e6">>, <<"thousand", " * 1e3">> >>

_SUFFIX_MULTIPLIERS ==
    << <<"T", "e12">>, <<"B", "e9">>, <<"M", "e6">>, <<"K", "e3">> >>

RECURSIVE ApplyWords(_, _)
ApplyWords(s, k) ==
    IF k > Len(_WORD_MULTIPLIERS) THEN s
    ELSE ApplyWords(SubWord(s, 1, _WORD_MULTIPLIERS[k][1], _WORD_MULTIPLIERS[k][2]), k + 1)

RECURSIVE ApplySuffixes(_, _)
ApplySuffixes(s, k) ==
    IF k > Len(_SUFFIX_MULTIPLIERS) THEN s
    ELSE ApplySuffixes(SubSuffix(s, 1, _SUFFIX_MULTIPLIERS[k][1], _SUFFIX_MULTIPLIERS[k][2]), k + 1)

_preprocess_scale(expr) == ApplySuffixes(ApplyWords(Strip(expr), 1), 1)

----------------------------------------------------------------------------
(* Unit extraction: estimator.py lines 38-103 *)

_BYTE_UNITS ==
    [t \in {"bytes", "byte"} |-> "byte"] @@
    [t \in {"kb", "kilobyte", "kilobytes"} |-> "kilobyte"] @@
    [t \in {"mb", "megabyte", "megabytes"} |-> "megabyte"] @@
    [t \in {"gb", "gigabyte", "gigabytes"} |-> "gigabyte"] @@
    [t \in {"tb", "terabyte", "terabytes"} |-> "terabyte"] @@
    [t \in {"pb", "petabyte", "petabytes"} |-> "petabyte"]

_TIME_UNITS ==
    [t \in {"second", "seconds", "s"} |-> "second"] @@
    [t \in {"minute", "minutes", "min"} |-> "minute"] @@
    [t \in {"hour", "hours", "hr"} |-> "hour"] @@
    [t \in {"day", "days"} |-> "day"] @@
    [t \in {"month", "months"} |-> "month"] @@
    [t \in {"year", "years"} |-> "year"]

_RATE_UNITS ==
    [r \in {"none"} |-> None] @@
    ("/s" :> "second") @@ ("/min" :> "minute") @@ ("/hour" :> "hour") @@
    ("/day" :> "day") @@ ("/month" :> "month") @@ ("/year" :> "year")

\* re.search(r'/\s*([a-zA-Z]+)\s*$', s): the pattern tried at a '/' at index i
TimeMatchAt(s, i) ==
    LET a == RunEnd(s, i + 1, SpaceSet)
        b == RunEnd(s, a + 1, UpperSet \cup LowerSet)
        c == RunEnd(s, b + 1, SpaceSet)
    IN IF Ch(s, i) = "/" /\ b >= a + 1 /\ c = Len(s)
       THEN [start |-> i, token |-> Slice(s, a + 1, b)]
       ELSE [start |-> 0, token |-> ""]

\* the leftmost match, start = 0 when there is none
TimeMatch(s) ==
    LET hits == {i \in 1..Len(s) : TimeMatchAt(s, i).start > 0}
    IN IF hits = {} THEN [start |-> 0, token |-> ""]
       ELSE TimeMatchAt(s, CHOOSE i \in hits : \A j \in hits : i <= j)

\* lines 95-103: the data unit token at the end of what remains
DataUnitOf(str, tokens, tu) ==
    LET last == IF tokens = <<>> THEN "" ELSE Lower(tokens[Len(tokens)])
    IN IF tokens # <<>> /\ last \in DOMAIN _BYTE_UNITS
       THEN [math_str |-> RStrip(Join(SubSeq(tokens, 1, Len(tokens) - 1)), {" ", "*"}),
             data_unit |-> _BYTE_UNITS[last], time_unit |-> tu]
       ELSE [math_str |-> str, data_unit |-> None, time_unit |-> tu]

\* lines 87-93: the time divisor at the end of the expression
TimeUnitOf(expr, tm, token) ==
    IF tm.start > 0 /\ token \in DOMAIN _TIME_UNITS
    THEN [math_str |-> Strip(Slice(expr, 1, tm.start - 1)), time_unit |-> _TIME_UNITS[token]]
    ELSE [math_str |-> expr, time_unit |-> None]

ParseData(t) == DataUnitOf(t.math_str, Split(Strip(t.math_str)), t.time_unit)
ParseTime(expr, tm) == TimeUnitOf(expr, tm, Lower(tm.token))

_parse_units(expr) == ParseData(ParseTime(expr, TimeMatch(expr)))

----------------------------------------------------------------------------
(* Numbers: exact values n/d * 10^e with d coprime to 10, n not a multiple  *)
(* of 10 and gcd(n, d) = 1, so that equal values are equal records          *)

Abs(x) == IF x < 0 THEN -x ELSE x
Max(a, b) == IF a >= b THEN a ELSE b
Min(a, b) == IF a <= b THEN a ELSE b

RECURSIVE GCD(_, _)
GCD(a, b) == IF b = 0 THEN a ELSE GCD(b, a % b)

RECURSIVE Pow10(_)
Pow10(k) == IF k <= 0 THEN 1 ELSE 10 * Pow10(k - 1)

RECURSIVE Norm(_, _, _)
Norm(n, d, e) ==
    IF n = 0 THEN [n |-> 0, d |-> 1, e |-> 0]
    ELSE IF n % 10 = 0 THEN Norm(n \div 10, d, e + 1)
    ELSE IF d % 10 = 0 THEN Norm(n, d \div 10, e - 1)
    ELSE IF d % 2 = 0 THEN Norm(n * 5, d \div 2, e - 1)
    ELSE IF d % 5 = 0 THEN Norm(n * 2, d \div 5, e - 1)
    ELSE LET g == GCD(Abs(n), d) IN [n |-> n \div g, d |-> d \div g, e |-> e]

Q(n, e) == Norm(n, 1, e)
Zero == Q(0, 0)

IsZero(a) == a.n = 0
IsNeg(a) == a.n < 0
IsInteger(a) == a.d = 1 /\ a.e >= 0
Neg(a) == [a EXCEPT !.n = -a.n]
AbsQ(a) == [a EXCEPT !.n = Abs(a.n)]

Mul(a, b) ==
    LET g1 == GCD(Abs(a.n), b.d)
        g2 == GCD(Abs(b.n), a.d)
    IN IF a.n = 0 \/ b.n = 0 THEN Zero
       ELSE Norm((a.n \div g1) * (b.n \div g2), (a.d \div g2) * (b.d \div g1), a.e + b.e)

\* 1 / b for b # 0
Inv(b) == IF b.n > 0 THEN Norm(b.d, b.n, -b.e) ELSE Norm(-b.d, -b.n, -b.e)
Div(a, b) == Mul(a, Inv(b))

Add(a, b) ==
    LET e == Min(a.e, b.e)
    IN IF a.n = 0 THEN b
       ELSE IF b.n = 0 THEN a
       ELSE Norm(a.n * Pow10(a.e - e) * b.d + b.n * Pow10(b.e - e) * a.d, a.d * b.d, e)
Sub(a, b) == Add(a, Neg(b))

\* a < b for a, b > 0, without forming numbers beyond the integer range
LessPos(a, b) ==
    LET L == a.n * b.d
        R == b.n * a.d
        s == a.e - b.e
    IN IF s >= 0
       THEN IF s > 9 THEN FALSE ELSE L < -((-R) \div Pow10(s))
       ELSE IF s < -9 THEN TRUE ELSE (L \div Pow10(-s)) < R

Less(a, b) ==
    IF a.n <= 0 /\ b.n > 0 THEN TRUE
    ELSE IF a.n < 0 /\ b.n = 0 THEN TRUE
    ELSE IF a.n >= 0 /\ b.n <= 0 THEN FALSE
    ELSE IF a.n > 0 THEN LessPos(a, b)
    ELSE LessPos(Neg(b), Neg(a))
Geq(a, b) == ~Less(a, b)

\* nearest integer to num/den (den > 0), ties to the even one: Python's round()
RoundHalfEven(num, den) ==
    LET q == num \div den
        r == num - q * den
    IN IF 2 * r < den THEN q
       ELSE IF 2 * r > den THEN q + 1
       ELSE IF q % 2 = 0 THEN q ELSE q + 1

\* round(x)
RoundQ(x) ==
    IF IsInteger(x) THEN x
    ELSE IF Less(AbsQ(x), Q(5, -1)) THEN Zero
    ELSE Q(RoundHalfEven(x.n * Pow10(x.e), x.d * Pow10(-x.e)), 0)

\* round(x, 1)
Round1dp(x) == Div(RoundQ(Mul(x, Q(1, 1))), Q(1, 1))

\* math.floor(x)
FloorQ(x) ==
    IF IsInteger(x) THEN x
    ELSE IF Less(AbsQ(x), Q(1, 0)) THEN (IF x.n < 0 THEN Q(-1, 0) ELSE Zero)
    ELSE Q((x.n * Pow10(x.e)) \div (x.d * Pow10(-x.e)), 0)

RECURSIVE Zeros(_)
Zeros(k) == IF k <= 0 THEN "" ELSE "0" \o Zeros(k - 1)

\* str(i) for an integer value
IntStr(a) == ToString(a.n) \o Zeros(a.e)

\* f"{r:g}" for r a multiple of 0.1 with |r| < 1e5; negZero is Python's -0.0
FormatG(r, negZero) ==
    IF IsZero(r) THEN (IF negZero THEN "-0" ELSE "0")
    ELSE IF IsInteger(r) THEN IntStr(r)
    ELSE (IF r.n < 0 THEN "-" ELSE "") \o ToString(Abs(r.n) \div 10)
         \o "." \o ToString(Abs(r.n) % 10)

----------------------------------------------------------------------------
(* Safe evaluation: estimator.py lines 65, 106-113.  eval() is Python's     *)
(* expression evaluator restricted to what the whitelisted characters can   *)
(* spell: number literals, + - * / // **, unary signs, parentheses, the     *)
(* empty tuple, calls, attribute access and names made of e and E.          *)

RECURSIVE DigitsVal(_, _)
DigitsVal(s, acc) ==
    IF s = "" THEN acc ELSE DigitsVal(Slice(s, 2, Len(s)), 10 * acc + DigitFn[Ch(s, 1)])

NameChars == {"e", "E"}

\* a number literal starting at i (a digit, or a point followed by a digit)
LexNumber(s, i) ==
    LET intEnd == RunEnd(s, i, DigitSet)
        hasDot == Ch(s, intEnd + 1) = "."
        fracEnd == IF hasDot THEN RunEnd(s, intEnd + 2, DigitSet) ELSE intEnd
        hasExpCh == Ch(s, fracEnd + 1) \in NameChars
        signed == Ch(s, fracEnd + 2) \in {"+", "-"}
        expStart == fracEnd + (IF signed THEN 3 ELSE 2)
        expEnd == RunEnd(s, expStart, DigitSet)
        hasExp == hasExpCh /\ expEnd >= expStart
        end == IF hasExp THEN expEnd ELSE fracEnd
        intDigits == Slice(s, i, intEnd)
        fracDigits == IF hasDot THEN Slice(s, intEnd + 2, fracEnd) ELSE ""
        expAbs == IF hasExp THEN DigitsVal(Slice(s, expStart, expEnd), 0) ELSE 0
        expVal == IF signed /\ Ch(s, fracEnd + 2) = "-" THEN -expAbs ELSE expAbs
        isInt == ~hasDot /\ ~hasExp
        leadingZero == isInt /\ Len(intDigits) > 1 /\ Ch(s, i) = "0"
                       /\ DigitsVal(intDigits, 0) # 0
    IN [end |-> end,
        bad |-> (hasExpCh /\ ~hasExp) \/ Ch(s, end + 1) \in NameChars \/ leadingZero,
        v |-> Q(DigitsVal(intDigits \o fracDigits, 0), expVal - Len(fracDigits)),
        ty |-> IF isInt THEN "int" ELSE "float"]

NumTok(v, ty) == [k |-> "num", s |-> "", v |-> v, ty |-> ty]
OpTok(o) == [k |-> "op", s |-> o, v |-> Zero, ty |-> ""]
NameTok(n) == [k |-> "name", s |-> n, v |-> Zero, ty |-> ""]
BadTok == [k |-> "bad", s |-> "", v |-> Zero, ty |-> ""]
EndTok == [k |-> "end", s |-> "", v |-> Zero, ty |-> ""]

RECURSIVE Tokenize(_, _)
Tokenize(s, i) ==
    LET c == Ch(s, i)
        c2 == Ch(s, i + 1)
    IN IF i > Len(s) THEN <<>>
       ELSE IF IsSpace(c) THEN Tokenize(s, i + 1)
       ELSE IF IsDigit(c) \/ (c = "." /\ IsDigit(c2))
            THEN LET n == LexNumber(s, i)
                 IN IF n.bad THEN <<BadTok>>
                    ELSE <<NumTok(n.v, n.ty)>> \o Tokenize(s, n.end + 1)
       ELSE IF c \in NameChars
            THEN LET j == RunEnd(s, i, NameChars \cup DigitSet)
                 IN <<NameTok(Slice(s, i, j))>> \o Tokenize(s, j + 1)
       ELSE IF (c = "*" /\ c2 = "*") \/ (c = "/" /\ c2 = "/")
            THEN <<OpTok(c \o c2)>> \o Tokenize(s, i + 2)
       ELSE IF c \in {"+", "-", "*", "/", "(", ")", "."}
            THEN <<OpTok(c)>> \o Tokenize(s, i + 1)
       ELSE <<BadTok>>

Tok(ts, i) == IF i >= 1 /\ i <= Len(ts) THEN ts[i] ELSE EndTok
IsOp(t, ops) == t.k = "op" /\ t.s \in ops

\* an evaluation in progress: next token, value, Python type, first exception
Val(i, v, ty, err) == [i |-> i, v |-> v, ty |-> ty, err |-> err]
Syn(i) == Val(i, Zero, "int", "SyntaxError")
IsSyn(r) == r.err = "SyntaxError"

RECURSIVE PowNat(_, _)
PowNat(b, k) == IF k = 0 THEN Q(1, 0) ELSE Mul(b, PowNat(b, k - 1))

\* the exception a binary operator raises on evaluated operands, "" if none
OpError(op, l, r) ==
    IF l.ty = "tuple" \/ r.ty = "tuple"
    THEN IF op = "+" /\ l.ty = "tuple" /\ r.ty = "tuple" THEN ""
         ELSE IF op = "*" /\ {l.ty, r.ty} = {"tuple", "int"} THEN ""
         ELSE "TypeError"
    ELSE IF op \in {"/", "//"} /\ IsZero(r.v) THEN "ZeroDivisionError"
    ELSE IF op = "**" /\ IsZero(l.v) /\ IsNeg(r.v) THEN "ZeroDivisionError"
    ELSE ""

OpType(op, l, r) ==
    IF l.ty = "tuple" \/ r.ty = "tuple" THEN "tuple"
    ELSE IF op = "/" THEN "float"
    ELSE IF op = "**" /\ IsNeg(r.v) THEN "float"
    ELSE IF l.ty = "int" /\ r.ty = "int" THEN "int" ELSE "float"

\* the value of l op r; the exponent of ** is an integer here
OpValue(op, l, r) ==
    IF l.ty = "tuple" \/ r.ty = "tuple" THEN Zero
    ELSE IF op = "+" THEN Add(l.v, r.v)
    ELSE IF op = "-" THEN Sub(l.v, r.v)
    ELSE IF op = "*" THEN Mul(l.v, r.v)
    ELSE IF op = "/" THEN Div(l.v, r.v)
    ELSE IF op = "//" THEN FloorQ(Div(l.v, r.v))
    ELSE LET k == CHOOSE k \in {Abs(r.v.n) * Pow10(r.v.e)} : IsInteger(r.v)
         IN IF IsNeg(r.v) THEN Inv(PowNat(l.v, k)) ELSE PowNat(l.v, k)

\* operands are evaluated left to right, then the operator is applied
BinOp(op, l, r) ==
    LET err == IF l.err # "" THEN l.err
               ELSE IF r.err # "" THEN r.err
               ELSE OpError(op, l, r)
    IN IF err # "" THEN Val(r.i, Zero, "int", err)
       ELSE Val(r.i, OpValue(op, l, r), OpType(op, l, r), "")

UnaryOp(op, r) ==
    IF r.err # "" THEN r
    ELSE IF r.ty = "tuple" THEN Val(r.i, Zero, "int", "TypeError")
    ELSE IF op = "-" THEN Val(r.i, Neg(r.v), r.ty, "") ELSE r

\* a call or an attribute access on a number or tuple: evaluated, then refused
Trailer(a, i, argErr, kind) ==
    Val(i, Zero, "int", IF a.err # "" THEN a.err ELSE IF argErr # "" THEN argErr ELSE kind)

\* Python's expression grammar by recursive descent, one rule per case.  The
\* argument a of a rule is the evaluation so far (for the rules that start an
\* operand only its next-token index a.i matters).
\*   expr:   term (('+' | '-') term)*          term:  factor (('*' | '/' | '//') factor)*
\*   factor: ('+' | '-') factor | power        power: primary ['**' factor]
\*   primary: atom ('(' [expr] ')' | '.' NAME)*
\*   atom:   NUMBER | NAME | '(' [expr] ')'
At(i) == Val(i, Zero, "int", "")

RECURSIVE Parse(_, _, _)
Parse(rule, ts, a) ==
    LET t == Tok(ts, a.i)
        closes(r) == ~IsSyn(r) /\ IsOp(Tok(ts, r.i), {")"})
    IN CASE rule = "atom" ->
            IF t.k = "num" THEN Val(a.i + 1, t.v, t.ty, "")
            ELSE IF t.k = "name" THEN Val(a.i + 1, Zero, "int", "NameError")
            ELSE IF ~IsOp(t, {"("}) THEN Syn(a.i)
            ELSE IF IsOp(Tok(ts, a.i + 1), {")"}) THEN Val(a.i + 2, Zero, "tuple", "")
            ELSE LET r == Parse("expr", ts, At(a.i + 1))
                 IN IF closes(r) THEN [r EXCEPT !.i = r.i + 1] ELSE Syn(r.i)
         [] rule = "trailers" ->
            IF IsSyn(a) THEN a
            ELSE IF IsOp(t, {"("})
            THEN IF IsOp(Tok(ts, a.i + 1), {")"})
                 THEN Parse("trailers", ts, Trailer(a, a.i + 2, "", "TypeError"))
                 ELSE LET r == Parse("expr", ts, At(a.i + 1))
                      IN IF closes(r)
                         THEN Parse("trailers", ts, Trailer(a, r.i + 1, r.err, "TypeError"))
                         ELSE Syn(r.i)
            ELSE IF IsOp(t, {"."})
            THEN IF Tok(ts, a.i + 1).k = "name"
                 THEN Parse("trailers", ts, Trailer(a, a.i + 2, "", "AttributeError"))
                 ELSE Syn(a.i + 1)
            ELSE a
         [] rule = "power" ->
            LET b == Parse("trailers", ts, Parse("atom", ts, a))
            IN IF IsSyn(b) \/ ~IsOp(Tok(ts, b.i), {"**"}) THEN b
               ELSE LET e == Parse("factor", ts, At(b.i + 1))
                    IN IF IsSyn(e) THEN e ELSE BinOp("**", b, e)
         [] rule = "factor" ->
            IF IsOp(t, {"+", "-"})
            THEN LET r == Parse("factor", ts, At(a.i + 1))
                 IN IF IsSyn(r) THEN r ELSE UnaryOp(t.s, r)
            ELSE Parse("power", ts, a)
         [] rule = "termRest" ->
            IF IsOp(t, {"*", "/", "//"})
            THEN LET r == Parse("factor", ts, At(a.i + 1))
                 IN IF IsSyn(r) THEN r ELSE Parse("termRest", ts, BinOp(t.s, a, r))
            ELSE a
         [] rule = "term" ->
            LET l == Parse("factor", ts, a)
            IN IF IsSyn(l) THEN l ELSE Parse("termRest", ts, l)
         [] rule = "exprRest" ->
            IF IsOp(t, {"+", "-"})
            THEN LET r == Parse("term", ts, At(a.i + 1))
                 IN IF IsSyn(r) THEN r ELSE Parse("exprRest", ts, BinOp(t.s, a, r))
            ELSE a
         [] rule = "expr" ->
            LET l == Parse("term", ts, a)
            IN IF IsSyn(l) THEN l ELSE Parse("exprRest", ts, l)

ParseExpr(ts, i) == Parse("expr", ts, At(i))

\* float(eval(cleaned, {"__builtins__": {}}, {})): the value, or the exception raised
FloatOf(ts, r) ==
    IF IsSyn(r) \/ r.i <= Len(ts) THEN [err |-> "SyntaxError", v |-> Zero]
    ELSE IF r.err # "" THEN [err |-> r.err, v |-> Zero]
    ELSE IF r.ty = "tuple" THEN [err |-> "TypeError", v |-> Zero]
    ELSE [err |-> "", v |-> r.v]

EvalTokens(ts) ==
    IF ts = <<>> \/ ts[Len(ts)].k = "bad" THEN [err |-> "SyntaxError", v |-> Zero]
    ELSE FloatOf(ts, ParseExpr(ts, 1))

PyEvalFloat(s) == EvalTokens(Tokenize(s, 1))

_SAFE_MATH_RE == DigitSet \cup SpaceSet \cup {".", "+", "-", "*", "/", "(", ")", "e", "E"}

\* the pattern without its closing anchor: a safe first character suffices
SafeMatch_unanchored(cleaned) == cleaned # "" /\ Ch(cleaned, 1) \in _SAFE_MATH_RE

\* _SAFE_MATH_RE.match(cleaned): one or more characters, all of the safe set
SafeMatch(cleaned) == cleaned # "" /\ \A i \in 1..Len(cleaned) : Ch(cleaned, i) \in _SAFE_MATH_RE

NoError == [kind |-> None, msg |-> ""]
Raise(kind, msg) == [kind |-> kind, msg |-> msg]
\* exceptions raised by the interpreter or the units library carry their own text,
\* which the model abstracts to the exception's class name
RaiseForeign(kind) == [kind |-> kind, msg |-> kind]

\* the outcome of _safe_eval: the exception raised (or NoError), the strings
\* that reached eval() and the value returned
Evaluated(cleaned, r) ==
    IF r.err # ""
    THEN [error |-> RaiseForeign(r.err), called |-> <<cleaned>>, value |-> Zero]
    ELSE [error |-> NoError, called |-> <<cleaned>>, value |-> r.v]

SafeEvalCleaned(cleaned) ==
    IF cleaned = ""
    THEN [error |-> Raise("ValueError", "Empty expression"), called |-> <<>>, value |-> Zero]
    ELSE IF ~SafeMatch(cleaned)
    THEN [error |-> Raise("ValueError", "Invalid characters in expression: " \o cleaned),
          called |-> <<>>, value |-> Zero]
    ELSE Evaluated(cleaned, PyEvalFloat(cleaned))

_safe_eval(str) == SafeEvalCleaned(Strip(str))

----------------------------------------------------------------------------
(* Units: the registry of estimator.py lines 14-16 *)

\* bytes per data unit (SI prefixes)
ByteFactor ==
    ("byte" :> Q(1, 0)) @@ ("kilobyte" :> Q(1, 3)) @@ ("megabyte" :> Q(1, 6)) @@
    ("gigabyte" :> Q(1, 9)) @@ ("terabyte" :> Q(1, 12)) @@ ("petabyte" :> Q(1, 15))

\* the registry without line 16: month is the library's default, a twelfth of a year
Seconds_defaultMonth ==
    ("second" :> Q(1, 0)) @@ ("minute" :> Q(60, 0)) @@ ("hour" :> Q(3600, 0)) @@
    ("day" :> Q(86400, 0)) @@ ("month" :> Q(2629800, 0)) @@ ("year" :> Q(31557600, 0))

\* seconds per time unit; month is redefined as 30 days, year is 365.25 days
Seconds ==
    ("second" :> Q(1, 0)) @@ ("minute" :> Q(60, 0)) @@ ("hour" :> Q(3600, 0)) @@
    ("day" :> Q(86400, 0)) @@ ("month" :> Mul(Q(30, 0), Q(86400, 0))) @@
    ("year" :> Q(31557600, 0))

\* a quantity: magnitude * data unit / time unit, either unit possibly absent
Quantity(m, du, tu) == [m |-> m, data |-> du, time |-> tu]

\* quantity.to(target): the converted magnitude, or ok = FALSE for pint's
\* DimensionalityError.  Data units are dimensionless multiples of the bit in
\* the registry, so only the time dimension can disagree.
To(q, du, tu) ==
    LET from == Div(IF q.data = None THEN Q(1, 0) ELSE ByteFactor[q.data],
                    IF q.time = None THEN Q(1, 0) ELSE Seconds[q.time])
        into == Div(IF du = None THEN Q(1, 0) ELSE ByteFactor[du],
                    IF tu = None THEN Q(1, 0) ELSE Seconds[tu])
    IN IF (q.time = None) # (tu = None) THEN [ok |-> FALSE, m |-> Zero]
       ELSE [ok |-> TRUE, m |-> Div(Mul(q.m, from), into)]

----------------------------------------------------------------------------
(* Formatting: estimator.py lines 118-160 *)

_BYTE_THRESHOLDS ==
    << <<Q(1, 15), "petabyte", "PB">>, <<Q(1, 12), "terabyte", "TB">>,
       <<Q(1, 9), "gigabyte", "GB">>, <<Q(1, 6), "megabyte", "MB">>,
       <<Q(1, 3), "kilobyte", "KB">>, <<Q(1, 0), "byte", "bytes">> >>

_NUMBER_THRESHOLDS ==
    << <<Q(1, 12), "trillion">>, <<Q(1, 9), "billion">>,
       <<Q(1, 6), "million">>, <<Q(1, 3), "K">> >>

\* the integer form taken within 50% of the nearest integer instead of 5%
_format_magnitude_wide(value) ==
    LET rounded_int == RoundQ(value)
        rounded_1dp == Round1dp(value)
    IN IF IsZero(value) THEN "0"
       ELSE IF ~IsZero(rounded_int)
               /\ Less(Div(AbsQ(Sub(value, rounded_int)), AbsQ(rounded_int)), Q(5, -1))
            THEN IF value = rounded_int \/ Less(AbsQ(Sub(value, rounded_int)), Q(1, -2))
                 THEN IntStr(rounded_int)
                 ELSE "~" \o IntStr(rounded_int)
       ELSE "~" \o FormatG(rounded_1dp, IsNeg(value))

_format_magnitude(value) ==
    LET rounded_int == RoundQ(value)
        rounded_1dp == Round1dp(value)
    IN IF IsZero(value) THEN "0"
       ELSE IF ~IsZero(rounded_int)
               /\ Less(Div(AbsQ(Sub(value, rounded_int)), AbsQ(rounded_int)), Q(5, -2))
            THEN IF value = rounded_int \/ Less(AbsQ(Sub(value, rounded_int)), Q(1, -2))
                 THEN IntStr(rounded_int)
                 ELSE "~" \o IntStr(rounded_int)
       ELSE "~" \o FormatG(rounded_1dp, IsNeg(value))

RECURSIVE NumberLoop(_, _, _)
NumberLoop(value, rate_label, k) ==
    IF k > Len(_NUMBER_THRESHOLDS) THEN _format_magnitude(value) \o rate_label
    ELSE IF Geq(AbsQ(value), _NUMBER_THRESHOLDS[k][1])
    THEN LET suffix == _NUMBER_THRESHOLDS[k][2]
             sep == IF Len(suffix) <= 1 THEN "" ELSE " "
         IN _format_magnitude(Div(value, _NUMBER_THRESHOLDS[k][1])) \o sep \o suffix \o rate_label
    ELSE NumberLoop(value, rate_label, k + 1)

_format_number(value, rate_label) == NumberLoop(value, rate_label, 1)

\* the threshold test written > instead of >=
RECURSIVE ByteLoop_strict(_, _, _)
ByteLoop_strict(bytes, rate_label, k) ==
    IF k > Len(_BYTE_THRESHOLDS) THEN _format_magnitude(bytes) \o " bytes" \o rate_label
    ELSE IF Less(_BYTE_THRESHOLDS[k][1], AbsQ(bytes))
    THEN _format_magnitude(To(Quantity(bytes, "byte", None), _BYTE_THRESHOLDS[k][2], None).m)
         \o " " \o _BYTE_THRESHOLDS[k][3] \o rate_label
    ELSE ByteLoop_strict(bytes, rate_label, k + 1)

\* the for ... else over _BYTE_THRESHOLDS (lines 199-206 and 221-228)
RECURSIVE ByteLoop(_, _, _)
ByteLoop(bytes, rate_label, k) ==
    IF k > Len(_BYTE_THRESHOLDS) THEN _format_magnitude(bytes) \o " bytes" \o rate_label
    ELSE IF Geq(AbsQ(bytes), _BYTE_THRESHOLDS[k][1])
    THEN _format_magnitude(To(Quantity(bytes, "byte", None), _BYTE_THRESHOLDS[k][2], None).m)
         \o " " \o _BYTE_THRESHOLDS[k][3] \o rate_label
    ELSE ByteLoop(bytes, rate_label, k + 1)

AutoBytes(bytes, rate_label) == ByteLoop(bytes, rate_label, 1)

\* the conversion to a caller-chosen unit (lines 215-219 and 236-240)
TargetBytes(bytes, target, rate_label) ==
    LET key == Lower(target)
    IN IF key \notin DOMAIN _BYTE_UNITS
       THEN [error |-> Raise("ValueError", "Unknown target unit: " \o target), display |-> ""]
       ELSE [error |-> NoError,
             display |-> _format_magnitude(To(Quantity(bytes, "byte", None), _BYTE_UNITS[key], None).m)
                         \o " " \o target \o rate_label]

Shown(display) == [error |-> NoError, display |-> display]

\* lines 213-228: a byte quantity, shown in the target unit or the threshold unit
BytesDisplay(in_bytes, target, rate_label) ==
    IF ~in_bytes.ok THEN [error |-> RaiseForeign("DimensionalityError"), display |-> ""]
    ELSE IF target \notin {"auto", "none"} THEN TargetBytes(in_bytes.m, target, rate_label)
    ELSE Shown(AutoBytes(in_bytes.m, rate_label))

\* the display path of evaluate taken: "rate-bytes" (196-206), "rate-count"
\* (207-210), "bytes" (211-228), "per-second" (229-232), "number" (233-242)
Path(du, tu, r) ==
    LET rate_time_unit == IF r \in DOMAIN _RATE_UNITS THEN _RATE_UNITS[r] ELSE None
    IN IF tu # None /\ rate_time_unit # None
       THEN (IF du # None THEN "rate-bytes" ELSE "rate-count")
       ELSE IF du # None THEN "bytes"
       ELSE IF tu # None THEN "per-second"
       ELSE "number"

\* evaluate, lines 180-242: the display string or the exception raised
Display(m, du, tu, target, r) ==
    LET rate_time_unit == IF r \in DOMAIN _RATE_UNITS THEN _RATE_UNITS[r] ELSE None
        rate_label == IF r = "none" THEN "" ELSE r
        quantity == Quantity(m, du, tu)
        path == Path(du, tu, r)
    IN IF path = "rate-bytes"
       THEN Shown(AutoBytes(To(quantity, "byte", rate_time_unit).m, rate_label))
       ELSE IF path = "rate-count"
       THEN Shown(_format_number(To(quantity, None, rate_time_unit).m, rate_label))
       ELSE IF path = "bytes"
       THEN BytesDisplay(To(quantity, "byte", None), target, rate_label)
       ELSE IF path = "per-second"
       THEN Shown(_format_number(To(quantity, None, "second").m, "/s"))
       ELSE IF target \notin {"auto", "none"}
       THEN TargetBytes(m, target, rate_label)
       ELSE Shown(_format_number(m, rate_label))

NoResult == [expression |-> None, result_display |-> None, raw_value |-> None]

\* evaluate(expression, target_unit, rate) as one call
Returned(e, m, shown) ==
    IF shown.error # NoError THEN [error |-> shown.error, result |-> NoResult]
    ELSE [error |-> NoError,
          result |-> [expression |-> e, result_display |-> shown.display, raw_value |-> m]]

Formatted(e, parsed, ev, target, r) ==
    IF ev.error # NoError THEN [error |-> ev.error, result |-> NoResult]
    ELSE Returned(e, ev.value, Display(ev.value, parsed.data_unit, parsed.time_unit, target, r))

Parsed(e, parsed, target, r) == Formatted(e, parsed, _safe_eval(parsed.math_str), target, r)

evaluate(e, target, r) == Parsed(e, _parse_units(_preprocess_scale(e)), target, r)

----------------------------------------------------------------------------
(* Inputs *)

MaxInt == 2
MaxEstimates == 2

\* operands: the small integers and the values the thresholds turn on
Numerals ==
    {ToString(i) : i \in 0..MaxInt} \cup
    {"30", "500", "999", "1000", "1000000", "0.5", "1.7", "1.96", "1.004"}

Scales == {" thousand", " Million", " billion", " trillion", "K", " M", "B", "T"}

DataSuffixes == {" bytes", " Bytes", " KB", " mb", " MB", " GB", " Terabytes", " PB", " * bytes"}

TimeSuffixes == {" / s", "/Min", " / hour", " / Day", " / MONTH", " / YEARS"}

\* expressions outside the grid: the documented examples, compound arithmetic
\* and residual strings the evaluator rejects
Others ==
    {"30 billion * 500 bytes", "500 million / month", "500 MB / day", "1 + 1",
     "10 / 2 billion", "10 / 2B", "10 / 2e9", "100", "10 /", "1 / 0", "(1 + 2", "1 + 2)",
     "", "   ", "abc", "5 MB * 3", "5 millions", "e", "1 (2)", "()", "bytes", "/ s",
     "-0.04 bytes", "-5 KB", "2 * (3 + 4) KB / s", "3 - 1.5", "2 ** 3", "7 // 2",
     "1e", "1.5.5 billion", "__import__", "9.5", "10.5 K", "20.9 bytes", "1.5 thousand GB",
     "0.96", "0.04", "12.5", "2.05", "10.5", "5 MB", "5 M", "1 / 2 thousand"}

\* a number, optionally scaled, optionally with a data unit and a time divisor
Grid ==
    Numerals \cup
    {n \o sc \o t : n \in Numerals, sc \in Scales, t \in {"", " / month"}} \cup
    {n \o d \o t : n \in Numerals, d \in DataSuffixes, t \in {""} \cup TimeSuffixes} \cup
    {n \o t : n \in Numerals, t \in TimeSuffixes}

Expressions == Grid \cup Others
TargetUnits == {"auto", "none", "GB", "XB"}
Rates == {"none", "/s", "/month"}

----------------------------------------------------------------------------
(* evaluate, one stage at a time *)

Init ==
    /\ expression \in Expressions
    /\ target_unit \in TargetUnits
    /\ rate \in Rates
    /\ pc = "preprocess"
    /\ processed = None /\ math_str = None /\ data_unit = None /\ time_unit = None
    /\ evaluated = <<>> /\ magnitude = None
    /\ result = NoResult /\ error = NoError
    /\ estimates = <<>> /\ last_error = None /\ reset_flag = FALSE
    /\ form_label = "" /\ form_expr = "" /\ form_unit = "auto" /\ form_rate = "none"

\* line 176
Preprocess ==
    /\ pc = "preprocess"
    /\ processed' = _preprocess_scale(expression)
    /\ pc' = "parse"
    /\ UNCHANGED <<expression, target_unit, rate, math_str, data_unit, time_unit,
                   evaluated, magnitude, result, error, appVars>>

\* line 177
ParseUnits ==
    /\ pc = "parse"
    /\ \E p \in {_parse_units(processed)} :
          /\ math_str' = p.math_str
          /\ data_unit' = p.data_unit
          /\ time_unit' = p.time_unit
    /\ pc' = "eval"
    /\ UNCHANGED <<expression, target_unit, rate, processed, evaluated, magnitude,
                   result, error, appVars>>

\* line 178
SafeEval ==
    /\ pc = "eval"
    /\ \E r \in {_safe_eval(math_str)} :
          /\ evaluated' = evaluated \o r.called
          /\ error' = r.error
          /\ magnitude' = IF r.error = NoError THEN r.value ELSE magnitude
          /\ pc' = IF r.error = NoError THEN "format" ELSE "raised"
    /\ UNCHANGED <<expression, target_unit, rate, processed, math_str, data_unit,
                   time_unit, result, appVars>>

\* lines 180-248
Format ==
    /\ pc = "format"
    /\ \E d \in {Display(magnitude, data_unit, time_unit, target_unit, rate)} :
          /\ error' = d.error
          /\ result' = IF d.error = NoError
                       THEN [expression |-> expression, result_display |-> d.display,
                             raw_value |-> magnitude]
                       ELSE result
          /\ pc' = IF d.error = NoError THEN "returned" ELSE "raised"
    /\ UNCHANGED <<expression, target_unit, rate, processed, math_str, data_unit,
                   time_unit, evaluated, magnitude, appVars>>

Next == Preprocess \/ ParseUnits \/ SafeEval \/ Format

Spec == Init /\ [][Next]_vars

----------------------------------------------------------------------------
(* The front end: streamlit_app.py *)

AppExpressions == {"", "1000 bytes", "10 /", "abc"}
AppLabels == {"", "Writes per second"}
AppUnits == {"auto", "GB"}
AppRates == {"none", "/s"}

\* evaluate on the form's inputs, computed once
FormEvaluate ==
    Table([a \in AppExpressions \X AppUnits \X AppRates |-> evaluate(a[1], a[2], a[3])])

InitApp ==
    /\ expression = "" /\ target_unit = "auto" /\ rate = "none"
    /\ pc = "idle"
    /\ processed = None /\ math_str = None /\ data_unit = None /\ time_unit = None
    /\ evaluated = <<>> /\ magnitude = None
    /\ result = NoResult /\ error = NoError
    /\ estimates = <<>> /\ last_error = None /\ reset_flag = FALSE
    /\ form_label = "" /\ form_expr = "" /\ form_unit = "auto" /\ form_rate = "none"

\* result["label"] = label or expression
Entry(res, label) ==
    [expression |-> res.expression, result_display |-> res.result_display,
     raw_value |-> res.raw_value, label |-> IF label # "" THEN label ELSE res.expression]

\* the handler with the append placed after the try block: it runs on failure too
Submit_appendAlways(label, expr, unit, r) ==
    LET o == FormEvaluate[<<expr, unit, r>>]
    IN /\ ~reset_flag
       /\ form_label' = label /\ form_expr' = expr /\ form_unit' = unit /\ form_rate' = r
       /\ IF expr = ""
          THEN UNCHANGED <<estimates, last_error>>
          ELSE /\ Len(estimates) < MaxEstimates
               /\ estimates' = Append(estimates,
                                      [expression |-> expr, result_display |-> o.result.result_display,
                                       raw_value |-> o.result.raw_value,
                                       label |-> IF label # "" THEN label ELSE expr])
               /\ last_error' = IF o.error = NoError THEN None ELSE o.error.msg
       /\ UNCHANGED <<reset_flag, evalVars>>

\* "Add Estimate" pressed with the form holding (label, expr, unit, r): lines 28-59
Submit(label, expr, unit, r) ==
    LET o == FormEvaluate[<<expr, unit, r>>]
    IN /\ ~reset_flag
       /\ form_label' = label /\ form_expr' = expr /\ form_unit' = unit /\ form_rate' = r
       /\ IF expr = ""
          THEN UNCHANGED <<estimates, last_error>>
          ELSE IF o.error = NoError
          THEN /\ Len(estimates) < MaxEstimates
               /\ estimates' = Append(estimates, Entry(o.result, label))
               /\ last_error' = None
          ELSE /\ last_error' = o.error.msg
               /\ UNCHANGED estimates
       /\ UNCHANGED <<reset_flag, evalVars>>

\* "Reset Fields" pressed: lines 45-47
PressReset ==
    /\ ~reset_flag
    /\ reset_flag' = TRUE
    /\ UNCHANGED <<estimates, last_error, form_label, form_expr, form_unit, form_rate, evalVars>>

\* the rerun that follows: lines 15-21
RerunReset ==
    /\ reset_flag
    /\ reset_flag' = FALSE
    /\ form_label' = "" /\ form_expr' = "" /\ form_unit' = "auto" /\ form_rate' = "none"
    /\ last_error' = None
    /\ UNCHANGED <<estimates, evalVars>>

\* the "x" button of entry i: lines 71-76
Delete(i) ==
    /\ ~reset_flag
    /\ i \in 1..Len(estimates)
    /\ estimates' = SubSeq(estimates, 1, i - 1) \o SubSeq(estimates, i + 1, Len(estimates))
    /\ UNCHANGED <<last_error, reset_flag, form_label, form_expr, form_unit, form_rate, evalVars>>

SubmitAny == \E label \in AppLabels, expr \in AppExpressions, unit \in AppUnits, r \in AppRates :
                 Submit(label, expr, unit, r)
DeleteAny == \E i \in 1..MaxEstimates : Delete(i)

NextApp == SubmitAny \/ PressReset \/ RerunReset \/ DeleteAny

SpecApp == InitApp /\ [][NextApp]_vars

----------------------------------------------------------------------------
(* Properties of evaluate, checked under Spec *)

Done == pc \in {"returned", "raised"}

\* the exception came from the formatting stage, after the arithmetic succeeded
FormatRaised ==
    pc = "raised" /\ (error.kind = "DimensionalityError"
                      \/ StartsWith(error.msg, "Unknown target unit: "))

\* the arithmetic was evaluated to a magnitude and evaluate has finished
Finished == pc = "returned" \/ FormatRaised

RateLabel == IF rate = "none" THEN "" ELSE rate

\* the SI exponent of each canonical data unit
SIExponent ==
    ("byte" :> 0) @@ ("kilobyte" :> 3) @@ ("megabyte" :> 6) @@
    ("gigabyte" :> 9) @@ ("terabyte" :> 12) @@ ("petabyte" :> 15)

InBytes(m, du) == Mul(m, Q(1, SIExponent[du]))

ThresholdNames == <<"PB", "TB", "GB", "MB", "KB", "bytes">>
ThresholdExponent(k) == 15 - 3 * (k - 1)

\* the first threshold, in descending order, that |v| reaches; 0 when |v| < 1
FirstThreshold(v) ==
    LET ks == {k \in 1..6 : Geq(AbsQ(v), Q(1, ThresholdExponent(k)))}
    IN IF ks = {} THEN 0 ELSE CHOOSE k \in ks : \A j \in ks : k <= j

ThresholdDisplay(v, k, label) ==
    IF k = 0 THEN _format_magnitude(v) \o " bytes" \o label
    ELSE _format_magnitude(Div(v, Q(1, ThresholdExponent(k)))) \o " " \o ThresholdNames[k] \o label

\* C1: an expression with a data unit and no time divisor, target unit auto or
\* none, value v >= 0 bytes: the display is v converted to the unit of the
\* first of 10^15 PB, 10^12 TB, 10^9 GB, 10^6 MB, 10^3 KB, 1 bytes that v
\* reaches (so exactly 1000 bytes is "1 KB"), and v in bytes when v < 1.
C1_ByteThreshold ==
    /\ (Finished /\ data_unit # None /\ time_unit = None /\ target_unit \in {"auto", "none"})
       => /\ pc = "returned"
          /\ ~IsNeg(magnitude) =>
               result.result_display =
                   ThresholdDisplay(InBytes(magnitude, data_unit),
                                    FirstThreshold(InBytes(magnitude, data_unit)), RateLabel)
    /\ (pc = "returned" /\ target_unit = "auto" /\ rate = "none")
       => /\ expression = "1000 bytes" => result.result_display = "1 KB"
          /\ expression = "999 bytes" => result.result_display = "999 bytes"
          /\ expression = "1000000 bytes" => result.result_display = "1 MB"
          /\ expression = "1000 KB" => result.result_display = "1 MB"
          /\ expression = "30 billion * 500 bytes" => result.result_display = "15 TB"
          /\ expression = "0.5 bytes" => result.result_display = "~0.5 bytes"
          /\ expression = "0 bytes" => result.result_display = "0 bytes"

C1_Witness ==
    /\ pc = "returned" /\ expression = "1000 bytes" /\ target_unit = "auto" /\ rate = "none"
    /\ result.result_display = "1 KB"

\* seconds in each canonical time unit, a month being 30 days
SecondsIn ==
    ("second" :> 1) @@ ("minute" :> 60) @@ ("hour" :> 3600) @@ ("day" :> 86400) @@
    ("month" :> 2592000) @@ ("year" :> 31557600)

RateTarget ==
    ("none" :> "second") @@ ("/s" :> "second") @@ ("/min" :> "minute") @@
    ("/hour" :> "hour") @@ ("/day" :> "day") @@ ("/month" :> "month") @@ ("/year" :> "year")

\* C2: a dimensionless magnitude m with a time divisor u and a recognized rate:
\* the display is the word-formatted m * seconds(target) / seconds(u), target
\* being the rate's unit or the second when rate is none, suffixed with the
\* rate string ("/s" when rate is none); raw_value is m itself.
\* '500 million / month' with the default rate gives '~193/s'.
C2_CountPerTime ==
    /\ (Finished /\ data_unit = None /\ time_unit # None /\ rate \in DOMAIN RateTarget)
       => /\ pc = "returned"
          /\ result.result_display =
                 _format_number(Div(Mul(magnitude, Q(SecondsIn[RateTarget[rate]], 0)),
                                    Q(SecondsIn[time_unit], 0)),
                                IF rate = "none" THEN "/s" ELSE rate)
          /\ result.raw_value = magnitude
    /\ (Done /\ expression = "500 million / month")
       => /\ pc = "returned"
          /\ result.raw_value = Q(5, 8)
          /\ rate = "none" => result.result_display = "~193/s"
          /\ rate = "/s" => result.result_display = "~193/s"
          /\ rate = "/month" => result.result_display = "500 million/month"

C2_Witness ==
    /\ pc = "returned" /\ expression = "500 million / month" /\ rate = "none"
    /\ data_unit = None /\ time_unit = "month"
    /\ result.result_display = "~193/s"

SafeCharacters ==
    {"0", "1", "2", "3", "4", "5", "6", "7", "8", "9", " ", ".", "+", "-", "*", "/",
     "(", ")", "e", "E"}

OnlySafe(str) == \A i \in 1..Len(str) : Ch(str, i) \in SafeCharacters

\* C3: when the math string left after scale expansion and unit extraction is
\* empty after stripping, or holds a character outside digits, whitespace and
\* . + - * / ( ) e E, evaluate raises the validation error and eval() is never
\* called; every string that reaches eval() holds safe characters only.
C3_Whitelist ==
    /\ \A i \in 1..Len(evaluated) : evaluated[i] # "" /\ OnlySafe(evaluated[i])
    /\ (pc \in {"format", "returned", "raised"} /\ (Strip(math_str) = "" \/ ~OnlySafe(Strip(math_str))))
       => /\ pc = "raised"
          /\ evaluated = <<>>
          /\ error.kind = "ValueError"
          /\ error.msg = IF Strip(math_str) = "" THEN "Empty expression"
                         ELSE "Invalid characters in expression: " \o Strip(math_str)

C3_Witness ==
    /\ pc = "raised" /\ expression = "5 MB * 3" /\ math_str = "5 MB * 3"
    /\ evaluated = <<>> /\ error.kind = "ValueError"

KnownTargets == {"auto", "none", "bytes", "KB", "MB", "GB", "TB", "PB"}

\* C4 (as stated): an expression with a data unit, with or without a time
\* divisor, evaluated with rate none does not fail: it is displayed as a byte
\* quantity, auto-scaled or in the chosen unit.
C4_DataUnitRateNone ==
    (Finished /\ data_unit # None /\ rate = "none" /\ target_unit \in KnownTargets)
    => /\ pc = "returned"
       /\ result.result_display =
              IF target_unit \in {"auto", "none"}
              THEN ThresholdDisplay(InBytes(magnitude, data_unit),
                                    FirstThreshold(InBytes(magnitude, data_unit)), "")
              ELSE _format_magnitude(Div(InBytes(magnitude, data_unit),
                                         Q(1, SIExponent[_BYTE_UNITS[Lower(target_unit)]])))
                   \o " " \o target_unit

\* C5 (as stated): a target unit that is neither auto nor none nor a byte unit
\* makes evaluate raise the unknown-unit error on every path.
C5_UnknownTargetUnit ==
    (Finished /\ target_unit \notin {"auto", "none"}
     /\ Lower(target_unit) \notin DOMAIN _BYTE_UNITS)
    => /\ pc = "raised"
       /\ error = Raise("ValueError", "Unknown target unit: " \o target_unit)

IsValidationError(err) ==
    err.kind = "ValueError"
    /\ (err.msg = "Empty expression" \/ StartsWith(err.msg, "Invalid characters in expression: "))
IsUnknownUnitError(err) ==
    err.kind = "ValueError" /\ StartsWith(err.msg, "Unknown target unit: ")
IsArithmeticError(err) == err.kind \in {"ZeroDivisionError", "OverflowError", "FloatingPointError"}

\* C6 (as stated): every failure of evaluate is a validation error, an
\* unknown-unit error or an arithmetic error; '10 /' raises the validation
\* error; a division by zero and an unbalanced parenthesis raise the
\* arithmetic error.
C6_ErrorTaxonomy ==
    /\ pc = "raised"
       => IsValidationError(error) \/ IsUnknownUnitError(error) \/ IsArithmeticError(error)
    /\ (Done /\ expression = "10 /") => (pc = "raised" /\ IsValidationError(error))
    /\ (Done /\ expression \in {"1 / 0", "(1 + 2"}) => (pc = "raised" /\ IsArithmeticError(error))

WordExponent ==
    ("thousand" :> 3) @@ ("million" :> 6) @@ ("billion" :> 9) @@ ("trillion" :> 12) @@
    ("Million" :> 6) @@ ("BILLION" :> 9)

\* the expressions "N w" and "N w / month" of the inputs, with the value N * 10^k
WordOperands ==
    Table([x \in {<<n, w, t>> : n \in Numerals, w \in DOMAIN WordExponent, t \in {"", " / month"}}
           |-> [expression |-> x[1] \o " " \o x[2] \o x[3],
                value |-> Mul(LexNumber(x[1], 1).v, Q(1, WordExponent[x[2]]))]])

\* C7 (as stated): "N w" contributes N * 10^k to the arithmetic wherever it
\* stands, also as a divisor, as the suffix form does: '10 / 2 billion' is
\* 10 / (2 * 10^9), the value of '10 / 2B'.
C7_WordMultiplier ==
    /\ \A x \in DOMAIN WordOperands :
          (Finished /\ expression = WordOperands[x].expression)
          => magnitude = WordOperands[x].value
    /\ (Finished /\ expression = "10 / 2B") => magnitude = Q(5, -9)
    /\ (Finished /\ expression = "10 / 2 billion") => magnitude = Q(5, -9)
    /\ (Finished /\ expression = "1 / 2 thousand") => magnitude = Q(5, -4)

UnitOfToken ==
    (" bytes" :> "byte") @@ (" Bytes" :> "byte") @@ (" KB" :> "kilobyte") @@
    (" mb" :> "megabyte") @@ (" MB" :> "megabyte") @@ (" GB" :> "gigabyte") @@
    (" Terabytes" :> "terabyte") @@ (" PB" :> "petabyte") @@ ("" :> None)

TimeOfToken ==
    (" / s" :> "second") @@ ("/Min" :> "minute") @@ (" / hour" :> "hour") @@
    (" / Day" :> "day") @@ (" / MONTH" :> "month") @@ (" / YEARS" :> "year") @@ ("" :> None)

UnitTriples ==
    {y \in Numerals \X (DOMAIN UnitOfToken) \X (DOMAIN TimeOfToken) : y[2] # "" \/ y[3] # ""}

UnitExpression(y) == y[1] \o y[2] \o y[3]

\* the inputs "N unit", "N / time" and "N unit / time", with what they denote
UnitOperands ==
    Table([e \in {UnitExpression(y) : y \in UnitTriples}
           |-> LET y == CHOOSE z \in UnitTriples : UnitExpression(z) = e
               IN [math_str |-> y[1], data_unit |-> UnitOfToken[y[2]],
                   time_unit |-> TimeOfToken[y[3]]]])

\* C8: in "N unit", "N / time" and "N unit / time" the single-letter suffix
\* replacements (T, B, M, K) leave the unit tokens as they are, although the
\* tokens begin with those letters; the units are then recognized and the
\* math string is N.
C8_SuffixKeepsUnits ==
    (pc # "preprocess" /\ expression \in DOMAIN UnitOperands)
    => /\ processed = expression
       /\ pc # "parse" => /\ math_str = UnitOperands[expression].math_str
                          /\ data_unit = UnitOperands[expression].data_unit
                          /\ time_unit = UnitOperands[expression].time_unit

C8_Witness ==
    /\ pc = "returned" /\ expression = "2 MB / Day"
    /\ processed = "2 MB / Day" /\ math_str = "2"
    /\ data_unit = "megabyte" /\ time_unit = "day"

\* the integer nearest to x, the even one of the two when x lies halfway
NearestInteger(x) ==
    LET f == FloorQ(x)
        d == Sub(x, f)
    IN IF Less(AbsQ(x), Q(5, -1)) THEN Zero
       ELSE IF Less(d, Q(5, -1)) THEN f
       ELSE IF Less(Q(5, -1), d) THEN Add(f, Q(1, 0))
       ELSE IF f.e > 0 \/ f.n % 2 = 0 THEN f ELSE Add(f, Q(1, 0))

\* x rounded to one decimal place, without trailing zeros or decimal point;
\* a negative x that rounds to zero keeps its sign
OneDecimal(x) ==
    LET t == NearestInteger(Mul(x, Q(1, 1)))
        k == Abs(t.n) * Pow10(t.e)
    IN IF k = 0 THEN (IF IsNeg(x) THEN "-0" ELSE "0")
       ELSE (IF IsNeg(x) THEN "-" ELSE "") \o ToString(k \div 10)
            \o (IF k % 10 = 0 THEN "" ELSE "." \o ToString(k % 10))

\* the rule of C9 as stated, for every x
ClaimedMagnitude(x) ==
    LET n == NearestInteger(x)
    IN IF ~IsZero(n) /\ Less(Div(AbsQ(Sub(x, n)), AbsQ(n)), Q(5, -2))
       THEN (IF x = n \/ Less(AbsQ(Sub(x, n)), Q(1, -2)) THEN "" ELSE "~") \o IntStr(n)
       ELSE "~" \o OneDecimal(x)

\* the rule with the value 0 written "0"
AmendedMagnitude(x) == IF IsZero(x) THEN "0" ELSE ClaimedMagnitude(x)

WordSuffixes == <<" trillion", " billion", " million", "K">>

FirstWord(v) ==
    LET ks == {k \in 1..4 : Geq(AbsQ(v), Q(1, 12 - 3 * (k - 1)))}
    IN IF ks = {} THEN 0 ELSE CHOOSE k \in ks : \A j \in ks : k <= j

\* the scaled value evaluate hands to _format_magnitude, and the text around it
WordScaled(F(_), v, k, label) ==
    IF k = 0 THEN F(v) \o label
    ELSE F(Div(v, Q(1, 12 - 3 * (k - 1)))) \o WordSuffixes[k] \o label

ByteScaled(F(_), v, k, label) ==
    IF k = 0 THEN F(v) \o " bytes" \o label
    ELSE F(Div(v, Q(1, ThresholdExponent(k)))) \o " " \o ThresholdNames[k] \o label

TargetScaled(F(_), v, label) ==
    F(Div(v, Q(1, SIExponent[_BYTE_UNITS[Lower(target_unit)]]))) \o " " \o target_unit \o label

PerTarget(m) == Div(Mul(m, Q(SecondsIn[RateTarget[rate]], 0)), Q(SecondsIn[time_unit], 0))

\* every display evaluate returns carries its scaled value written by F
DisplaysWith(F(_)) ==
    pc = "returned"
    => result.result_display =
         IF time_unit = None
         THEN IF target_unit \notin {"auto", "none"}
              THEN TargetScaled(F, IF data_unit = None THEN magnitude
                                   ELSE InBytes(magnitude, data_unit), RateLabel)
              ELSE IF data_unit = None
              THEN WordScaled(F, magnitude, FirstWord(magnitude), RateLabel)
              ELSE ByteScaled(F, InBytes(magnitude, data_unit),
                              FirstThreshold(InBytes(magnitude, data_unit)), RateLabel)
         ELSE IF data_unit = None
         THEN WordScaled(F, PerTarget(magnitude), FirstWord(PerTarget(magnitude)),
                         IF rate = "none" THEN "/s" ELSE rate)
         ELSE ByteScaled(F, PerTarget(InBytes(magnitude, data_unit)),
                         FirstThreshold(PerTarget(InBytes(magnitude, data_unit))), RateLabel)

\* C9 (as stated): for every scaled value x, _format_magnitude writes the
\* nearest integer n when n # 0 and |x - n| / |n| < 0.05, without "~" if
\* x = n or |x - n| < 0.01 and with "~" otherwise; in every other case "~"
\* and x rounded to one decimal place in compact form.
C9_AsStated == DisplaysWith(ClaimedMagnitude)

\* C9 (amended): for every nonzero scaled value x, _format_magnitude writes
\* the nearest integer n (ties to even) when n # 0 and |x - n| / |n| < 0.05,
\* without "~" if x = n or |x - n| < 0.01 and with "~" otherwise; in every
\* other case "~" and x rounded to one decimal place in compact form, a
\* negative x that rounds to zero being written "~-0"; the value 0 is written
\* "0".  evaluate('100', target_unit='GB') returns '~0 GB'.
C9_FormatMagnitude ==
    /\ DisplaysWith(AmendedMagnitude)
    /\ (Done /\ expression = "100" /\ target_unit = "GB" /\ rate = "none")
       => (pc = "returned" /\ result.result_display = "~0 GB")

C9_Witness ==
    /\ pc = "returned" /\ expression = "100" /\ target_unit = "GB" /\ rate = "none"
    /\ result.result_display = "~0 GB"

----------------------------------------------------------------------------
(* Properties of the front end, checked under SpecApp *)

\* C10: in the front end, whatever submits, deletes and resets came before, a
\* submit whose evaluate call raises leaves the estimates list as it was and
\* records the error's message as the displayed error, the session going on;
\* a submit whose evaluate call succeeds appends exactly one entry at the end
\* of the list, labelled with the user's label or, when that is empty, with
\* the expression text, and clears the displayed error.
C10_SubmitOutcome ==
    [][\A label \in AppLabels, expr \in AppExpressions \ {""}, unit \in AppUnits, r \in AppRates :
         Submit(label, expr, unit, r)
         => IF FormEvaluate[<<expr, unit, r>>].error # NoError
            THEN /\ estimates' = estimates
                 /\ last_error' = FormEvaluate[<<expr, unit, r>>].error.msg
                 /\ last_error' # None /\ last_error' # ""
                 /\ pc' = "idle" /\ reset_flag' = FALSE
            ELSE /\ Len(estimates') = Len(estimates) + 1
                 /\ SubSeq(estimates', 1, Len(estimates)) = estimates
                 /\ estimates'[Len(estimates')].label = (IF label = "" THEN expr ELSE label)
                 /\ estimates'[Len(estimates')].expression = expr
                 /\ estimates'[Len(estimates')].result_display =
                        FormEvaluate[<<expr, unit, r>>].result.result_display
                 /\ last_error' = None]_vars

C10_Witness ==
    /\ Len(estimates) = 2
    /\ estimates[1].label = "Writes per second"
    /\ estimates[2].label = "1000 bytes" /\ estimates[2].result_display = "1 KB"
    /\ last_error = "Invalid characters in expression: abc"

====
